---- MODULE Spec2Model ----
(***************************************************************************)
(* Client-side dispatch machinery of leptos_sse (src/src/lib.rs, the       *)
(* wasm32 branch): the thread-local registries STATE_SIGNALS,              *)
(* STATE_SIGNALS_LOCAL, DELAYED_UPDATES and EVENT_SOURCE, the              *)
(* SseInitialized context marker, provide_sse, create_sse_signal,          *)
(* create_sse_signal_local and the onmessage closure; and the update the   *)
(* server builds with ServerSignalUpdate::new / new_from_json.             *)
(***************************************************************************)
EXTENDS Integers, Sequences, FiniteSets, TLC

\* ------------------------------------------------------------------ bounds
MaxMessages == 3   \* message events the event stream delivers in one run
MaxSignals  == 2   \* create_sse_signal / create_sse_signal_local calls in one run
MaxValue    == 2   \* the largest number in a document the server holds

\* ------------------------------------------------------------- JSON values
\* A JSON document is an object with numeric fields: a function from the keys
\* it has to numbers.

\* serde_json::to_value(T::default()) for the example type Count { value: i32 }.
DefaultDoc == [k \in {"value"} |-> 0]

\* ------------------------------------------------------------- JSON patch
\* One RFC 6902 operation on a flat object; path and from name a key.
Op(o, p, f, v) == [op |-> o, path |-> p, from |-> f, value |-> v]
Replace(p, v) == Op("replace", p, "", v)
Add(p, v)     == Op("add", p, "", v)
Remove(p)     == Op("remove", p, "", 0)
Test(p, v)    == Op("test", p, "", v)
Move(f, p)    == Op("move", p, f, 0)
Copy(f, p)    == Op("copy", p, f, 0)

OpNames == {"add", "remove", "replace", "move", "copy", "test"}

DocSet(doc, k, v) == [x \in (DOMAIN doc) \cup {k} |-> IF x = k THEN v ELSE doc[x]]
DocDel(doc, k)    == [x \in (DOMAIN doc) \ {k} |-> doc[x]]

\* One operation applied to doc: [ok, doc]; on an error doc is returned as it is.
apply_op(doc, o) ==
    CASE o.op = "add"     -> [ok |-> TRUE, doc |-> DocSet(doc, o.path, o.value)]
      [] o.op = "remove"  -> IF o.path \in DOMAIN doc
                             THEN [ok |-> TRUE, doc |-> DocDel(doc, o.path)]
                             ELSE [ok |-> FALSE, doc |-> doc]
      [] o.op = "replace" -> IF o.path \in DOMAIN doc
                             THEN [ok |-> TRUE, doc |-> DocSet(doc, o.path, o.value)]
                             ELSE [ok |-> FALSE, doc |-> doc]
      [] o.op = "test"    -> IF o.path \in DOMAIN doc /\ doc[o.path] = o.value
                             THEN [ok |-> TRUE, doc |-> doc]
                             ELSE [ok |-> FALSE, doc |-> doc]
      [] o.op = "move"    -> IF o.from \in DOMAIN doc
                             THEN [ok |-> TRUE,
                                   doc |-> DocSet(DocDel(doc, o.from), o.path, doc[o.from])]
                             ELSE [ok |-> FALSE, doc |-> doc]
      [] o.op = "copy"    -> IF o.from \in DOMAIN doc
                             THEN [ok |-> TRUE, doc |-> DocSet(doc, o.path, doc[o.from])]
                             ELSE [ok |-> FALSE, doc |-> doc]
      [] OTHER            -> [ok |-> FALSE, doc |-> doc]

\* The operations of a patch applied in sequence, stopping at the first error:
\* the document then keeps the effect of the operations before the failing one.
RECURSIVE patch_unsafe(_, _)
patch_unsafe(doc, p) ==
    IF p = <<>> THEN [ok |-> TRUE, doc |-> doc]
    ELSE LET r == apply_op(doc, Head(p))
         IN  IF r.ok THEN patch_unsafe(r.doc, Tail(p))
             ELSE [ok |-> FALSE, doc |-> doc]

\* A patch that leaves the operations before the failing one applied.
patch_no_revert(doc, p) == patch_unsafe(doc, p)

\* json_patch::patch(doc, &patch): all operations or none; on an error the
\* operations already applied are reverted.
patch(doc, p) ==
    LET r == patch_unsafe(doc, p)
    IN  IF r.ok THEN r ELSE [ok |-> FALSE, doc |-> doc]

\* ------------------------------------------------------------ wire format
Names == {"a", "b"}

\* The patches the server sends in this model: the counter stepped from 0 to
\* 1, which fails on any other value after its first operation has been
\* applied, and the counter set to 2.
PStep   == <<Add("aux", 0), Test("value", 0), Replace("value", 1), Remove("aux")>>
PSet2   == <<Replace("value", 2)>>
Patches == {PStep, PSet2}

\* ServerSignalUpdate { name, patch }
ServerSignalUpdate(n, p) == [name |-> n, patch |-> p]

\* ------------------------------------------------------------ diff engine
\* The keys of the documents the server holds, in sorted order.
Keys == <<"aux", "value">>
\* The JSON documents the server holds: objects over Keys with numbers up to MaxValue.
Docs == UNION {[K -> 0..MaxValue] : K \in SUBSET {Keys[i] : i \in 1..Len(Keys)}}

\* A diff that reports no removed key.
diff_no_remove(left, right) ==
    LET changed == SelectSeq(Keys, LAMBDA k : /\ k \in DOMAIN left
                                             /\ k \in DOMAIN right
                                             /\ left[k] # right[k])
        added   == SelectSeq(Keys, LAMBDA k : k \in DOMAIN right /\ k \notin DOMAIN left)
    IN  [i \in 1..Len(changed) |-> Replace(changed[i], right[changed[i]])]
          \o [i \in 1..Len(added) |-> Add(added[i], right[added[i]])]

\* json_patch::diff(&left, &right) on two objects: the keys of left in sorted
\* order, a remove for a key right does not have and a replace for a key whose
\* value differs, then an add for each key only right has.
diff(left, right) ==
    LET changed == SelectSeq(Keys, LAMBDA k : /\ k \in DOMAIN left
                                             /\ (k \notin DOMAIN right \/ left[k] # right[k]))
        added   == SelectSeq(Keys, LAMBDA k : k \in DOMAIN right /\ k \notin DOMAIN left)
    IN  [i \in 1..Len(changed) |->
            IF changed[i] \in DOMAIN right THEN Replace(changed[i], right[changed[i]])
            ELSE Remove(changed[i])]
          \o [i \in 1..Len(added) |-> Add(added[i], right[added[i]])]

\* The values of the example type Count { value: i32 }, by their field.
Count == 0..MaxValue
\* serde_json::to_value(&count)
to_value(count) == [k \in {"value"} |-> count]

\* ServerSignalUpdate::new(name, &old, &new), lines 37-52.
new(name, old, right) == ServerSignalUpdate(name, diff(to_value(old), to_value(right)))

\* ServerSignalUpdate::new_from_json(name, &old, &new), lines 55-61.
new_from_json(name, old, right) == ServerSignalUpdate(name, diff(old, right))

\* The updates the server sends in this model.
Updates == {ServerSignalUpdate("a", p) : p \in Patches} \cup {ServerSignalUpdate("b", PSet2)}

\* The text of a message event, by its structure: whether it is JSON at all,
\* and the "name" and "patch" members of the object ("" = member missing).
serialize(u) == [json |-> TRUE, name |-> u.name, patch |-> u.patch]
NotJson      == [json |-> FALSE, name |-> "", patch |-> <<>>]
BadOp        == [json |-> TRUE, name |-> "a", patch |-> <<Op("frob", "value", "", 1)>>]
Malformed    == {NotJson, BadOp}
Payloads     == Malformed \cup {serialize(u) : u \in Updates}

\* A deserializer that takes any operation name.
from_str_any_op(s) ==
    IF s.json /\ s.name # ""
    THEN [ok |-> TRUE, update |-> ServerSignalUpdate(s.name, s.patch)]
    ELSE [ok |-> FALSE, update |-> ServerSignalUpdate("", <<>>)]

\* serde_json::from_str::<ServerSignalUpdate>(&ws_string)
from_str(s) ==
    IF /\ s.json
       /\ s.name # ""
       /\ \A i \in 1..Len(s.patch) : s.patch[i].op \in OpNames
    THEN [ok |-> TRUE, update |-> ServerSignalUpdate(s.name, s.patch)]
    ELSE [ok |-> FALSE, update |-> ServerSignalUpdate("", <<>>)]

\* --------------------------------------------------------- reactive owners
\* The reactive owners a call is made under: the root owner and a child of it.
Owners == {"root", "child"}
Ancestors(o) == IF o = "root" THEN {"root"} ELSE {o, "root"}
Urls == {"/sse", "http://["}
\* EventSource::new(url) throws a SyntaxError on a URL that does not parse.
UrlParses(url) == url = "/sse"

VARIABLES
    SseInitialized,       \* owners the SseInitialized context is provided in
    EVENT_SOURCE,         \* 0 = None, else the id of the stored EventSource
    sources,              \* EventSource objects created so far: id -> [onmessage]
    STATE_SIGNALS,        \* name -> index into signals
    STATE_SIGNALS_LOCAL,  \* name -> index into signals
    DELAYED_UPDATES,      \* name -> sequence of [patch, seq]
    signals,              \* the RwSignal<Value> cells created so far
    event,                \* the payload of the message event handled last
    delivered,            \* the number of message events handled so far
    history,              \* the names of the updates deserialized, in arrival order
    panicked,             \* the module instance has aborted on a panic
    ret                   \* what the last provide_sse call whose caller kept the
                          \* Result returned; "none" before the first such call

\* A panic (an unwrap of an Err in the handler) aborts the wasm32 module: the
\* state is left as the code had changed it up to the panic, and no call or
\* handler of the module runs after it.

vars == <<SseInitialized, EVENT_SOURCE, sources, STATE_SIGNALS, STATE_SIGNALS_LOCAL,
          DELAYED_UPDATES, signals, event, delivered, history, panicked, ret>>

registries == <<STATE_SIGNALS, STATE_SIGNALS_LOCAL>>
connection == <<SseInitialized, EVENT_SOURCE, sources>>

Init ==
    /\ SseInitialized = {}
    /\ EVENT_SOURCE = 0
    /\ sources = <<>>
    /\ STATE_SIGNALS = <<>>
    /\ STATE_SIGNALS_LOCAL = <<>>
    /\ DELAYED_UPDATES = <<>>
    /\ signals = <<>>
    /\ event = NotJson
    /\ delivered = 0
    /\ history = <<>>
    /\ panicked = FALSE
    /\ ret = "none"

\* A lookup that finds the marker whether or not it has been provided.
use_context_always_some(o) == TRUE

\* use_context::<SseInitialized>().is_some() under owner o: the marker is
\* looked up in o and its ancestors.
use_context(o) == Ancestors(o) \cap SseInitialized # {}

\* HashMap::insert(k, v)
MapInsert(m, k, v) == [x \in (DOMAIN m) \cup {k} |-> IF x = k THEN v ELSE m[x]]

\* A remove that empties the map.
MapClear(m, k) == <<>>

\* A remove that leaves the entry in the map.
MapKeep(m, k) == m

\* HashMap::remove(k)
MapRemove(m, k) == [x \in (DOMAIN m) \ {k} |-> m[x]]

\* ---------------------------------------------------------- provide_sse
\* A provide_sse that installs no message handler on the EventSource.
provide_sse_no_handler(o, url) ==
    /\ ~panicked
    /\ IF use_context(o)
       THEN UNCHANGED connection
       ELSE IF ~UrlParses(url)
       THEN UNCHANGED connection
       ELSE /\ sources' = Append(sources, [onmessage |-> FALSE])
            /\ EVENT_SOURCE' = Len(sources) + 1
            /\ SseInitialized' = SseInitialized \cup {o}
    /\ UNCHANGED <<registries, DELAYED_UPDATES, signals, event, delivered, history, panicked>>

\* A provide_sse that provides the marker before it creates the EventSource.
provide_sse_marker_first(o, url) ==
    /\ ~panicked
    /\ IF use_context(o)
       THEN UNCHANGED connection
       ELSE IF ~UrlParses(url)
       THEN /\ SseInitialized' = SseInitialized \cup {o}
            /\ UNCHANGED <<EVENT_SOURCE, sources>>
       ELSE /\ sources' = Append(sources, [onmessage |-> TRUE])
            /\ EVENT_SOURCE' = Len(sources) + 1
            /\ SseInitialized' = SseInitialized \cup {o}
    /\ UNCHANGED <<registries, DELAYED_UPDATES, signals, event, delivered, history, panicked>>

\* provide_sse_inner(url) under owner o, lines 225-353.
provide_sse_inner(o, url) ==
    /\ ~panicked
    /\ IF use_context(o)
       THEN UNCHANGED connection          \* "SSE already initialized", Ok(())
       ELSE IF ~UrlParses(url)
       THEN UNCHANGED connection          \* EventSource::new(url)? returns the Err
       ELSE /\ sources' = Append(sources, [onmessage |-> TRUE])
            /\ EVENT_SOURCE' = Len(sources) + 1
            /\ SseInitialized' = SseInitialized \cup {o}
    /\ UNCHANGED <<registries, DELAYED_UPDATES, signals, event, delivered, history, panicked>>

\* The Result of provide_sse_inner(url) under owner o: Ok(()) from the early
\* return of line 234, the Err of line 239, or the Ok(()) of line 352.
provide_sse_result(o, url) ==
    IF use_context(o) THEN "Ok: already initialized"
    ELSE IF ~UrlParses(url) THEN "Err"
    ELSE "Ok"

\* provide_sse(url) under owner o, lines 83-85, by a caller that drops the
\* Result: let _ = leptos_sse::provide_sse("/sse").
provide_sse(o, url) ==
    /\ provide_sse_inner(o, url)
    /\ UNCHANGED ret

\* provide_sse(url) under owner o, lines 83-85, by a caller that keeps the
\* Result.
provide_sse_checked(o, url) ==
    /\ provide_sse_inner(o, url)
    /\ ret' = provide_sse_result(o, url)

\* ------------------------------------------------------ create_sse_signal
\* RwSignal::new(serde_json::to_value(T::default()).unwrap()). With the value,
\* a signal carries the arrival numbers of the patches applied to it (log) and
\* how many of them came from DELAYED_UPDATES (replayed). The ReadSignal<T> a
\* create call returns follows the value of its own RwSignal through the
\* Effect of lines 185-188; signal c of this sequence stands for both.
new_signal(name, local) ==
    [name |-> name, local |-> local, value |-> DefaultDoc, log |-> <<>>, replayed |-> 0]

\* The map a registration leaves: signals.borrow_mut().insert(name, signal).
register(map, name, c) == MapInsert(map, name, c)

\* create_sse_signal(name) under owner o: setup_sse_signal, lines 170-196.
create_sse_signal(o, name) ==
    /\ ~panicked
    /\ Len(signals) < MaxSignals
    /\ signals' = Append(signals, new_signal(name, FALSE))
    /\ IF use_context(o)
       THEN STATE_SIGNALS' = register(STATE_SIGNALS, name, Len(signals) + 1)
       ELSE UNCHANGED STATE_SIGNALS
    /\ UNCHANGED <<connection, STATE_SIGNALS_LOCAL, DELAYED_UPDATES, event, delivered, history,
                   panicked, ret>>

\* create_sse_signal_local(name) under owner o: setup_sse_signal_local, lines 198-222.
create_sse_signal_local(o, name) ==
    /\ ~panicked
    /\ Len(signals) < MaxSignals
    /\ signals' = Append(signals, new_signal(name, TRUE))
    /\ IF use_context(o)
       THEN STATE_SIGNALS_LOCAL' = register(STATE_SIGNALS_LOCAL, name, Len(signals) + 1)
       ELSE UNCHANGED STATE_SIGNALS_LOCAL
    /\ UNCHANGED <<connection, STATE_SIGNALS, DELAYED_UPDATES, event, delivered, history,
                   panicked, ret>>

\* -------------------------------------------------------------- messages
\* for patch in delayed_patches { json_patch::patch(doc, &patch).unwrap(); }
\* [ok, doc, applied]: the document as the loop leaves it, and the arrival
\* numbers of the patches it applied; ok is FALSE when an unwrap panicked.
RECURSIVE replay(_, _)
replay(doc, ds) ==
    IF ds = <<>> THEN [ok |-> TRUE, doc |-> doc, applied |-> <<>>]
    ELSE LET r == patch(doc, Head(ds).patch)
         IN  IF r.ok
             THEN LET t == replay(r.doc, Tail(ds))
                  IN  [ok |-> t.ok, doc |-> t.doc, applied |-> <<Head(ds).seq>> \o t.applied]
             ELSE [ok |-> FALSE, doc |-> r.doc, applied |-> <<>>]

\* The same two loops in the wrong order: the patch of the message first.
apply_updates_live_first(doc, delayed, current) ==
    LET q == replay(doc, <<current>>)
    IN  IF ~q.ok THEN [ok |-> FALSE, doc |-> q.doc, applied |-> <<>>, replayed |-> 0]
        ELSE LET r == replay(q.doc, delayed)
             IN  [ok |-> r.ok, doc |-> r.doc, applied |-> q.applied \o r.applied,
                  replayed |-> Len(r.applied)]

\* Lines 280-294 (and 307-321): the delayed patches of the name applied first,
\* then the patch of the message.
apply_updates(doc, delayed, current) ==
    LET r == replay(doc, delayed)
    IN  IF ~r.ok THEN [ok |-> FALSE, doc |-> r.doc, applied |-> r.applied,
                       replayed |-> Len(r.applied)]
        ELSE LET q == replay(r.doc, <<current>>)
             IN  [ok |-> q.ok, doc |-> q.doc, applied |-> r.applied \o q.applied,
                  replayed |-> Len(r.applied)]

\* The delayed patches of a name: delayed_map.remove(name).
delayed_of(name) == IF name \in DOMAIN DELAYED_UPDATES THEN DELAYED_UPDATES[name] ELSE <<>>

\* The arrival number of the update being handled.
stamp == Len(history) + 1

\* A message event with payload s is dispatched to the handler: some
\* EventSource with an onmessage handler exists.
message_event(s) ==
    /\ ~panicked
    /\ \E i \in 1..Len(sources) : sources[i].onmessage
    /\ delivered < MaxMessages
    /\ event' = s
    /\ delivered' = delivered + 1
    /\ history' = IF from_str(s).ok THEN Append(history, from_str(s).update.name) ELSE history
    /\ UNCHANGED ret

\* The handler body for a name found in a registry, on signal c.
update_signal(c, u) ==
    LET r == apply_updates(signals[c].value, delayed_of(u.name),
                           [patch |-> u.patch, seq |-> stamp])
    IN  /\ DELAYED_UPDATES' = MapRemove(DELAYED_UPDATES, u.name)
        /\ signals' = [signals EXCEPT ![c].value = r.doc, ![c].log = @ \o r.applied,
                                      ![c].replayed = @ + r.replayed]
        /\ panicked' = ~r.ok

\* onmessage, line 272: the payload does not deserialize; nothing is done.
onmessage_invalid(s) ==
    /\ message_event(s)
    /\ ~from_str(s).ok
    /\ UNCHANGED <<connection, registries, DELAYED_UPDATES, signals, panicked>>

\* onmessage, lines 276-299: the name is in STATE_SIGNALS.
onmessage_sync(s) ==
    /\ message_event(s)
    /\ from_str(s).ok
    /\ from_str(s).update.name \in DOMAIN STATE_SIGNALS
    /\ update_signal(STATE_SIGNALS[from_str(s).update.name], from_str(s).update)
    /\ UNCHANGED <<connection, registries>>

\* A handler that does not look into STATE_SIGNALS_LOCAL: the patch is queued.
onmessage_local_not_probed(s) ==
    /\ message_event(s)
    /\ from_str(s).ok
    /\ from_str(s).update.name \notin DOMAIN STATE_SIGNALS
    /\ from_str(s).update.name \in DOMAIN STATE_SIGNALS_LOCAL
    /\ DELAYED_UPDATES' =
         MapInsert(DELAYED_UPDATES, from_str(s).update.name,
                   Append(delayed_of(from_str(s).update.name),
                          [patch |-> from_str(s).update.patch, seq |-> stamp]))
    /\ UNCHANGED <<connection, registries, signals, panicked>>

\* A handler that goes on to STATE_SIGNALS_LOCAL whether or not the name was
\* found in STATE_SIGNALS.
onmessage_local_unconditional(s) ==
    /\ message_event(s)
    /\ from_str(s).ok
    /\ from_str(s).update.name \in DOMAIN STATE_SIGNALS_LOCAL
    /\ update_signal(STATE_SIGNALS_LOCAL[from_str(s).update.name], from_str(s).update)
    /\ UNCHANGED <<connection, registries>>

\* onmessage, lines 302-326: the name is in STATE_SIGNALS_LOCAL only.
onmessage_local(s) ==
    /\ message_event(s)
    /\ from_str(s).ok
    /\ from_str(s).update.name \notin DOMAIN STATE_SIGNALS
    /\ from_str(s).update.name \in DOMAIN STATE_SIGNALS_LOCAL
    /\ update_signal(STATE_SIGNALS_LOCAL[from_str(s).update.name], from_str(s).update)
    /\ UNCHANGED <<connection, registries>>

\* An enqueue that starts the list over.
enqueue_replacing(map, name, item) == MapInsert(map, name, <<item>>)

\* delayed_map.entry(name).or_default().push(patch), line 332.
enqueue(map, name, item) ==
    MapInsert(map, name, Append(IF name \in DOMAIN map THEN map[name] ELSE <<>>, item))

\* onmessage, lines 328-334: the name is in neither registry.
onmessage_queue(s) ==
    /\ message_event(s)
    /\ from_str(s).ok
    /\ from_str(s).update.name \notin DOMAIN STATE_SIGNALS
    /\ from_str(s).update.name \notin DOMAIN STATE_SIGNALS_LOCAL
    /\ DELAYED_UPDATES' = enqueue(DELAYED_UPDATES, from_str(s).update.name,
                                  [patch |-> from_str(s).update.patch, seq |-> stamp])
    /\ UNCHANGED <<connection, registries, signals, panicked>>

Next ==
    \/ \E o \in Owners, url \in Urls : provide_sse(o, url)
    \/ \E o \in Owners, n \in Names : create_sse_signal(o, n)
    \/ \E o \in Owners, n \in Names : create_sse_signal_local(o, n)
    \/ \E s \in Payloads : onmessage_invalid(s)
    \/ \E s \in Payloads : onmessage_sync(s)
    \/ \E s \in Payloads : onmessage_local(s)
    \/ \E s \in Payloads : onmessage_queue(s)

Spec == Init /\ [][Next]_vars

\* ------------------------------------------------- server and one client
\* A client whose signal "a" is registered in STATE_SIGNALS and holds the
\* document the server holds for "a"; the server changes its value and sends
\* the update built from the old and the new value.
DiffInit ==
    /\ SseInitialized = {"root"}
    /\ EVENT_SOURCE = 1
    /\ sources = <<[onmessage |-> TRUE]>>
    /\ STATE_SIGNALS = [n \in {"a"} |-> 1]
    /\ STATE_SIGNALS_LOCAL = <<>>
    /\ DELAYED_UPDATES = <<>>
    /\ signals \in {<<[new_signal("a", FALSE) EXCEPT !.value = doc]>> : doc \in Docs}
    /\ event = NotJson
    /\ delivered = 0
    /\ history = <<>>
    /\ panicked = FALSE
    /\ ret = "none"

\* The server's JSON value for "a" changes to right: new_from_json, then the
\* handler on the client.
send_new_from_json(right) ==
    onmessage_sync(serialize(new_from_json("a", signals[STATE_SIGNALS["a"]].value, right)))

\* The server's Count for "a" changes from old to right: new, then the handler
\* on the client.
send_new(old, right) ==
    /\ signals[STATE_SIGNALS["a"]].value = to_value(old)
    /\ onmessage_sync(serialize(new("a", old, right)))

DiffNext ==
    \/ \E right \in Docs : send_new_from_json(right)
    \/ \E old \in Count, right \in Count : send_new(old, right)

DiffSpec == DiffInit /\ [][DiffNext]_vars

\* ----------------------------------------------- callers of provide_sse
\* The calls a component makes while it is built, by a caller that keeps the
\* Result of provide_sse.
ConnNext ==
    \/ \E o \in Owners, url \in Urls : provide_sse_checked(o, url)
    \/ \E o \in Owners, n \in Names : create_sse_signal(o, n)
    \/ \E o \in Owners, n \in Names : create_sse_signal_local(o, n)

ConnSpec == Init /\ [][ConnNext]_vars

\* ================================================================ claims
Registered(n) == n \in DOMAIN STATE_SIGNALS \/ n \in DOMAIN STATE_SIGNALS_LOCAL

\* The signal the handler picks for a registered name: STATE_SIGNALS first.
CellOf(n) == IF n \in DOMAIN STATE_SIGNALS THEN STATE_SIGNALS[n] ELSE STATE_SIGNALS_LOCAL[n]

\* This step handled a message event; its payload is event'.
MessageStep == delivered' = delivered + 1
\* This step handled a payload that is a well-formed update for name n.
UpdateStep(n) == MessageStep /\ event' \notin Malformed /\ event'.name = n
\* This step is a create_sse_signal / create_sse_signal_local call.
CreateStep == Len(signals') = Len(signals) + 1

PatchesOf(ds) == [i \in 1..Len(ds) |-> ds[i].patch]
SeqsOf(ds)    == [i \in 1..Len(ds) |-> ds[i].seq]
Pending(n)    == IF n \in DOMAIN DELAYED_UPDATES THEN DELAYED_UPDATES[n] ELSE <<>>
Increasing(q) == \A i, j \in 1..Len(q) : i < j => q[i] < q[j]
Range(q)      == {q[i] : i \in 1..Len(q)}

\* RFC 6902 on its own: whether all operations of p apply to doc in sequence,
\* and the document they leave.
Applies(doc, p) == patch_unsafe(doc, p).ok
After(doc, p)   == patch_unsafe(doc, p).doc

\* doc with the patches ps applied in order, up to the first one that fails.
RECURSIVE ApplyWhileOk(_, _)
ApplyWhileOk(doc, ps) ==
    IF ps = <<>> \/ ~Applies(doc, Head(ps)) THEN doc
    ELSE ApplyWhileOk(After(doc, Head(ps)), Tail(ps))

\* Whether every patch of ps applies, in order.
RECURSIVE AllApply(_, _)
AllApply(doc, ps) ==
    ps = <<>> \/ (Applies(doc, Head(ps)) /\ AllApply(After(doc, Head(ps)), Tail(ps)))

\* C1: the patches applied to a signal are applied in arrival order: the
\* arrival numbers in a signal's log only ever increase, and a message handled
\* for a registered name leaves the signal at its old value with the name's
\* buffered patches applied in buffer order and then the patch of the message.
C1_ArrivalOrder ==
    [][/\ \A c \in 1..Len(signals') : Increasing(signals'[c].log)
       /\ \A n \in Names :
            (UpdateStep(n) /\ Registered(n) /\ ~panicked') =>
              /\ AllApply(signals[CellOf(n)].value,
                          PatchesOf(Pending(n)) \o <<event'.patch>>)
              /\ signals'[CellOf(n)].value =
                   ApplyWhileOk(signals[CellOf(n)].value,
                                PatchesOf(Pending(n)) \o <<event'.patch>>)
              /\ signals'[CellOf(n)].log =
                   signals[CellOf(n)].log \o SeqsOf(Pending(n)) \o <<Len(history')>>]_vars

\* A signal has had a buffered patch replayed into it and then a live one.
C1_Witness ==
    /\ ~panicked
    /\ \E c \in 1..Len(signals) :
         /\ signals[c].replayed >= 1
         /\ Len(signals[c].log) > signals[c].replayed
         /\ signals[c].value = [k \in {"value"} |-> 2]

\* C2: a registration of a name with buffered patches leaves the new signal
\* at the default value with those patches applied in arrival order.
C2_ReplayedOnRegistration ==
    [][\A n \in Names :
         (CreateStep /\ Registered(n)' /\ CellOf(n)' = Len(signals') /\ Pending(n) # <<>>) =>
            signals'[Len(signals')].value = ApplyWhileOk(DefaultDoc, PatchesOf(Pending(n)))]_vars

\* The run is over: the stream has delivered its last message and every
\* signal of the run has been created, so no signal changes any more.
Done == delivered = MaxMessages /\ Len(signals) = MaxSignals

\* No name has been given two signals.
RegisteredOnce == \A c, d \in 1..Len(signals) : signals[c].name = signals[d].name => c = d

\* C3: every patch received for a registered name is eventually applied to
\* the name's signal: at the end of a run in which no patch failed and no name
\* was registered twice, each has been.
C3_EventuallyApplied ==
    (Done /\ ~panicked /\ RegisteredOnce) =>
      \A n \in Names : Registered(n) =>
        \A i \in 1..Len(history) : history[i] = n => i \in Range(signals[CellOf(n)].log)

\* C4: a patch that does not apply never aborts the handler.
C4_NeverFatal == ~panicked

C6_RegistrationIdempotent ==
    [][CreateStep =>
         /\ \A n \in DOMAIN STATE_SIGNALS : STATE_SIGNALS'[n] = STATE_SIGNALS[n]
         /\ \A n \in DOMAIN STATE_SIGNALS_LOCAL :
              STATE_SIGNALS_LOCAL'[n] = STATE_SIGNALS_LOCAL[n]]_vars

\* C7: at most one event stream is ever opened and one handler installed.
C7_OneConnection == Len(sources) <= 1

\* C8: a payload that does not deserialize changes no signal, no registry and
\* no buffer entry.
C8_MalformedDropped ==
    [][(MessageStep /\ event' \in Malformed) =>
         UNCHANGED <<connection, registries, DELAYED_UPDATES, signals, history, panicked>>]_vars

\* A malformed payload was handled, and an update that arrived after it is
\* the last one applied to a signal.
C8_Witness ==
    /\ delivered > Len(history)
    /\ event \notin Malformed
    /\ ~panicked
    /\ \E c \in 1..Len(signals) :
         signals[c].log # <<>> /\ signals[c].log[Len(signals[c].log)] = Len(history)

\* C9: an update for a name in neither registry is appended to the name's
\* pending list, and no signal and no registry changes.
C9_Enqueued ==
    [][\A n \in Names :
         (UpdateStep(n) /\ ~Registered(n)) =>
            /\ DOMAIN DELAYED_UPDATES' = DOMAIN DELAYED_UPDATES \cup {n}
            /\ DELAYED_UPDATES'[n] =
                 Append(Pending(n), [patch |-> event'.patch, seq |-> Len(history')])
            /\ UNCHANGED <<signals, registries, panicked>>]_vars

\* A pending list holds two patches in arrival order.
C9_Witness ==
    \E n \in DOMAIN DELAYED_UPDATES :
        /\ Len(DELAYED_UPDATES[n]) >= 2
        /\ DELAYED_UPDATES[n][1].patch # DELAYED_UPDATES[n][2].patch

\* C10: a message for name a changes neither the signals, nor the registry
\* entry, nor the pending list of another name.
C10_Isolation ==
    [][\A a \in Names :
         UpdateStep(a) =>
            /\ UNCHANGED registries
            /\ \A b \in Names \ {a} :
                 /\ (b \in DOMAIN DELAYED_UPDATES') = (b \in DOMAIN DELAYED_UPDATES)
                 /\ b \in DOMAIN DELAYED_UPDATES => DELAYED_UPDATES'[b] = DELAYED_UPDATES[b]
            /\ \A c \in 1..Len(signals) :
                 signals[c].name # a => signals'[c] = signals[c]]_vars

\* An update for "a" was applied while "b" had a signal and a pending list.
C10_Witness ==
    /\ event \notin Malformed
    /\ event.name = "a"
    /\ Registered("a")
    /\ signals[CellOf("a")].log # <<>>
    /\ "b" \in DOMAIN DELAYED_UPDATES
    /\ \E c \in 1..Len(signals) : signals[c].name = "b"

\* C11: the patch of the update built from (a, b) by new or new_from_json,
\* applied by the handler to a cell holding a, leaves the cell holding exactly
\* b; the update built from {"value":0} and {"value":1} has the single
\* operation replace /value 1 and takes a cell from {"value":0} to {"value":1}.
C11_DiffApplyRoundTrip ==
    /\ new("a", 0, 1).patch = <<Replace("value", 1)>>
    /\ patch([k \in {"value"} |-> 0], new("a", 0, 1).patch) =
         [ok |-> TRUE, doc |-> [k \in {"value"} |-> 1]]
    /\ [][MessageStep =>
            /\ \A b \in Docs :
                 event' = serialize(new_from_json("a", signals[1].value, b)) =>
                    ~panicked' /\ signals'[1].value = b
            /\ \A m, n \in Count :
                 (signals[1].value = to_value(m) /\ event' = serialize(new("a", m, n))) =>
                    ~panicked' /\ signals'[1].value = to_value(n)]_vars

\* The second update the cell received took it to {"value":1} by the single
\* operation replace /value 1.
C11_Witness ==
    /\ event = serialize(ServerSignalUpdate("a", <<Replace("value", 1)>>))
    /\ signals[1].value = [k \in {"value"} |-> 1]
    /\ signals[1].log = <<1, 2>>
    /\ ~panicked

\* C12: no name is registered in STATE_SIGNALS and in STATE_SIGNALS_LOCAL at
\* the same time.
C12_OneRegistryPerName == DOMAIN STATE_SIGNALS \cap DOMAIN STATE_SIGNALS_LOCAL = {}

\* C13: no name that has a signal in a registry has an entry in
\* DELAYED_UPDATES.
C13_NoPendingForRegistered ==
    \A n \in Names : Registered(n) => n \notin DOMAIN DELAYED_UPDATES

\* C14: an update for a name that is in STATE_SIGNALS_LOCAL only is applied to
\* the signal registered there, after the name's buffered patches, and is not
\* queued; a patch is appended to a pending list only when its name is in
\* neither registry.
C14_BothRegistriesProbed ==
    [][\A n \in Names :
         UpdateStep(n) =>
            /\ (n \notin DOMAIN STATE_SIGNALS /\ n \in DOMAIN STATE_SIGNALS_LOCAL) =>
                 /\ n \notin DOMAIN DELAYED_UPDATES'
                 /\ ~panicked' =>
                      /\ signals'[STATE_SIGNALS_LOCAL[n]].value =
                           ApplyWhileOk(signals[STATE_SIGNALS_LOCAL[n]].value,
                                        PatchesOf(Pending(n)) \o <<event'.patch>>)
                      /\ signals'[STATE_SIGNALS_LOCAL[n]].log =
                           signals[STATE_SIGNALS_LOCAL[n]].log
                             \o SeqsOf(Pending(n)) \o <<Len(history')>>
            /\ (n \in DOMAIN DELAYED_UPDATES' /\ Len(DELAYED_UPDATES'[n]) > Len(Pending(n))) =>
                 ~Registered(n)]_vars

\* A signal registered in STATE_SIGNALS_LOCAL only has had a buffered patch
\* and then the patch of a message applied to it, and nothing is pending for
\* its name.
C14_Witness ==
    /\ ~panicked
    /\ \E n \in DOMAIN STATE_SIGNALS_LOCAL \ DOMAIN STATE_SIGNALS :
         /\ signals[STATE_SIGNALS_LOCAL[n]].replayed >= 1
         /\ Len(signals[STATE_SIGNALS_LOCAL[n]].log) > signals[STATE_SIGNALS_LOCAL[n]].replayed
         /\ n \notin DOMAIN DELAYED_UPDATES

\* Signal c is the value of some registry entry.
InRegistry(c) ==
    \/ \E n \in DOMAIN STATE_SIGNALS : STATE_SIGNALS[n] = c
    \/ \E n \in DOMAIN STATE_SIGNALS_LOCAL : STATE_SIGNALS_LOCAL[n] = c

\* C15: a create call made while SseInitialized is provided nowhere inserts
\* nothing into either registry; a signal that is in no registry is never
\* inserted later and never changes, whatever provide_sse calls and messages
\* follow; an update for a name in neither registry only lengthens the name's
\* pending list.
C15_UnregisteredKeepsDefault ==
    [][/\ (CreateStep /\ SseInitialized = {}) =>
            /\ UNCHANGED registries
            /\ \A n \in DOMAIN STATE_SIGNALS' : STATE_SIGNALS'[n] # Len(signals')
            /\ \A n \in DOMAIN STATE_SIGNALS_LOCAL' : STATE_SIGNALS_LOCAL'[n] # Len(signals')
            /\ signals'[Len(signals')].value = DefaultDoc
       /\ \A c \in 1..Len(signals) :
            ~InRegistry(c) => (~InRegistry(c)' /\ signals'[c] = signals[c])
       /\ \A n \in Names :
            (UpdateStep(n) /\ ~Registered(n)) =>
               /\ UNCHANGED signals
               /\ Len(DELAYED_UPDATES'[n]) = Len(Pending(n)) + 1]_vars

\* The first signal was created by a call that did not find SseInitialized;
\* provide_sse has succeeded and two updates for its name have arrived:
\* they are in the pending list, and the signal holds the default value.
C15_Witness ==
    /\ Len(signals) >= 1
    /\ ~InRegistry(1)
    /\ ~Registered(signals[1].name)
    /\ SseInitialized # {}
    /\ Len(Pending(signals[1].name)) = 2
    /\ signals[1].value = DefaultDoc
    /\ signals[1].log = <<>>

\* C16: no received patch is applied to a signal twice, and a patch applied to
\* a signal is no longer in a pending list: the arrival numbers in a signal's
\* log are all different, and none of them is the number of a pending patch.
C16_AppliedAtMostOnce ==
    \A c \in 1..Len(signals) :
        /\ \A i, j \in 1..Len(signals[c].log) :
             signals[c].log[i] = signals[c].log[j] => i = j
        /\ \A n \in DOMAIN DELAYED_UPDATES :
             Range(signals[c].log) \cap Range(SeqsOf(DELAYED_UPDATES[n])) = {}

\* A signal had a buffered patch replayed into it by one message, and a later
\* message for its name has been applied to it as well.
C16_Witness ==
    /\ ~panicked
    /\ \E c \in 1..Len(signals) :
         /\ signals[c].replayed = 1
         /\ signals[c].log = <<1, 2, 3>>

\* The places that hold the patch with arrival number k, in the signals sigs
\* and the pending lists delayed: the signals that have it in their log and
\* the names that have it in their pending list.
HoldersOf(sigs, delayed, k) ==
    {<<"signal", c>> : c \in {d \in 1..Len(sigs) : k \in Range(sigs[d].log)}}
      \cup {<<"pending", n>> : n \in {x \in DOMAIN delayed : k \in Range(SeqsOf(delayed[x]))}}

\* C17: an update goes to one target and changes nothing else: the signal
\* STATE_SIGNALS has for its name; or, when STATE_SIGNALS has none, the signal
\* STATE_SIGNALS_LOCAL has for it; or, when neither has one, the pending list
\* of the name. A name in both registries has its update (and its buffered
\* patches) applied to the signal of STATE_SIGNALS, and the signal of
\* STATE_SIGNALS_LOCAL is left as it was. When no patch fails, exactly one
\* place holds the patch afterwards; never do two.
C17_OneTarget ==
    [][\A n \in Names :
         UpdateStep(n) =>
            /\ Cardinality(HoldersOf(signals', DELAYED_UPDATES', Len(history'))) <= 1
            /\ ~panicked' => Cardinality(HoldersOf(signals', DELAYED_UPDATES', Len(history'))) = 1
            /\ Registered(n) =>
                 /\ \A c \in 1..Len(signals) : c # CellOf(n) => signals'[c] = signals[c]
                 /\ n \notin DOMAIN DELAYED_UPDATES'
                 /\ ~panicked' => HoldersOf(signals', DELAYED_UPDATES', Len(history')) = {<<"signal", CellOf(n)>>}
            /\ (n \in DOMAIN STATE_SIGNALS /\ n \in DOMAIN STATE_SIGNALS_LOCAL) =>
                 /\ signals'[STATE_SIGNALS_LOCAL[n]] = signals[STATE_SIGNALS_LOCAL[n]]
                 /\ ~panicked' =>
                      signals'[STATE_SIGNALS[n]].log =
                        signals[STATE_SIGNALS[n]].log \o SeqsOf(Pending(n)) \o <<Len(history')>>
            /\ ~Registered(n) =>
                 /\ UNCHANGED signals
                 /\ HoldersOf(signals', DELAYED_UPDATES', Len(history')) = {<<"pending", n>>}]_vars

\* A name is in both registries: a buffered patch and the patch of a message
\* have been applied to its signal in STATE_SIGNALS, and its signal in
\* STATE_SIGNALS_LOCAL holds the default value.
C17_Witness ==
    /\ ~panicked
    /\ \E n \in DOMAIN STATE_SIGNALS \cap DOMAIN STATE_SIGNALS_LOCAL :
         /\ signals[STATE_SIGNALS[n]].replayed >= 1
         /\ Len(signals[STATE_SIGNALS[n]].log) > signals[STATE_SIGNALS[n]].replayed
         /\ signals[STATE_SIGNALS[n]].value # DefaultDoc
         /\ signals[STATE_SIGNALS_LOCAL[n]].value = DefaultDoc
         /\ signals[STATE_SIGNALS_LOCAL[n]].log = <<>>

\* C18: whenever SseInitialized is provided somewhere, EVENT_SOURCE holds an
\* EventSource and that EventSource has its onmessage handler; so whenever a
\* name is registered, an EventSource with a handler exists.
C18_InitializedHasHandler ==
    /\ SseInitialized # {} =>
         /\ EVENT_SOURCE \in 1..Len(sources)
         /\ sources[EVENT_SOURCE].onmessage
    /\ (DOMAIN STATE_SIGNALS \cup DOMAIN STATE_SIGNALS_LOCAL # {}) =>
         \E i \in 1..Len(sources) : sources[i].onmessage

\* provide_sse has succeeded and a signal has been registered since.
C18_Witness ==
    /\ SseInitialized # {}
    /\ EVENT_SOURCE # 0
    /\ DOMAIN STATE_SIGNALS # {}
    /\ delivered = 0

\* This step is a provide_sse call.
ProvideStep == ~CreateStep /\ ~MessageStep

\* C19: a provide_sse call that returns the Err of EventSource::new changes
\* nothing: no EventSource is stored, no handler installed, no marker
\* provided; so the provide_sse call after a failed first attempt does not
\* report "already initialized", and when it returns Ok it has opened the
\* connection.
C19_FailedProvideChangesNothing ==
    [][/\ (ProvideStep /\ ret' = "Err") =>
            UNCHANGED <<connection, registries, DELAYED_UPDATES, signals, event, delivered,
                        history, panicked>>
       /\ (ProvideStep /\ ret = "Err" /\ SseInitialized = {}) =>
            /\ ret' # "Ok: already initialized"
            /\ ret' = "Ok" =>
                 /\ Len(sources') = Len(sources) + 1
                 /\ EVENT_SOURCE' = Len(sources')
                 /\ sources'[EVENT_SOURCE'].onmessage
                 /\ SseInitialized' # {}]_vars

\* The first provide_sse call has failed: nothing is stored and nothing is
\* marked, and a signal created since was not registered.
C19_Witness ==
    /\ ret = "Err"
    /\ SseInitialized = {}
    /\ EVENT_SOURCE = 0
    /\ sources = <<>>
    /\ Len(signals) = 1
    /\ ~InRegistry(1)

====
